---- MODULE Spec2Model ----
(***************************************************************************)
(* A model of sceptre.jsonnet_renderer.JsonnetRenderer: the import         *)
(* resolution (try_path, import_callback) and the render call that hands   *)
(* the callback to the Jsonnet evaluator.                                  *)
(*                                                                         *)
(* A Python str is a sequence of one-character strings, so that indexing   *)
(* (import_path[0], full_path[-1]), concatenation and os.path.join are     *)
(* computed as the code computes them.                                     *)
(***************************************************************************)
EXTENDS Naturals, Sequences, FiniteSets

VARIABLES
    fs,           \* the filesystem: path -> entry
    pc,           \* position of the render call
    templateDir,  \* render's template_dir
    filename,     \* render's filename
    userData,     \* render's sceptre_user_data, bound into the callback
    reqDir,       \* template_dir argument of the running import_callback
    reqPath,      \* import_path argument of the running import_callback
    tpResult,     \* how try_path ended in the running import_callback
    cbResult,     \* how the running import_callback ended
    touched,      \* paths the running import_callback asked the filesystem about
    openFiles,    \* paths of the file objects currently open
    evalOutcome,  \* how _jsonnet.evaluate_file ended
    renderResult, \* how render ended
    pinned        \* history: one earlier resolution (request and outcome)

vars == <<fs, pc, templateDir, filename, userData, reqDir, reqPath, tpResult,
          cbResult, touched, openFiles, evalOutcome, renderResult, pinned>>

----------------------------------------------------------------------------
(* Bounds and input sets *)

MaxPathLen == 2

Sep == "/"

PathChars == {Sep, "a"}

SENTINEL == <<"s","c","e","p","t","r","e","_","u","s","e","r","_","d","a","t","a">>

\* The import paths a template may request.
ImportPaths == UNION {[1..n -> PathChars] : n \in 0..MaxPathLen} \cup {SENTINEL}

\* The directories the evaluator passes to the callback.
BaseDirs == {<< >>, <<"d">>, <<"d", Sep>>}

TemplateDirs == {<<"d">>}

Filenames == {<<"t">>}

\* A user-data value: <<type, text>>. A "set" stands for a Python value the
\* json module has no encoding for.
IntOne == <<"int", "1">>
StrX == <<"str", "x">>
SetVal == <<"set", "">>

\* A dict is the sequence of its (key, value) items in insertion order.
UserDatas == { << >>,
               << <<"a", IntOne>> >>,
               << <<"a", StrX>>, <<"b", IntOne>> >>,
               << <<"a", SetVal>> >> }

----------------------------------------------------------------------------
(* The filesystem *)

Absent == [kind |-> "absent", content |-> << >>, mode |-> "ok"]
Dir == [kind |-> "dir", content |-> << >>, mode |-> "ok"]
File(c) == [kind |-> "file", content |-> c, mode |-> "ok"]
\* A regular file open() refuses (PermissionError).
FileNoPerm == [kind |-> "file", content |-> <<"x">>, mode |-> "noperm"]
\* A regular file whose bytes read() cannot decode (UnicodeDecodeError).
FileUndecodable == [kind |-> "file", content |-> <<"x">>, mode |-> "undecodable"]

RelFile == <<"d", Sep, "a">>
AbsFile == <<Sep, "a">>
SentinelFile == <<"d", Sep>> \o SENTINEL

FsPaths == {RelFile, AbsFile, SentinelFile}

\* What each path may be: the relative file takes every kind of entry.
Entries(p) ==
    IF p = RelFile
        THEN {Absent, Dir, File(<< >>), File(<<"x">>), FileNoPerm, FileUndecodable}
    ELSE IF p = AbsFile THEN {Absent, Dir, File(<<"x">>)}
    ELSE {Absent, File(<<"x">>)}

FsStates == {f \in [FsPaths -> UNION {Entries(p) : p \in FsPaths}] :
                \A p \in FsPaths : f[p] \in Entries(p)}

----------------------------------------------------------------------------
(* Path and filesystem primitives *)

Last(s) == s[Len(s)]

\* The kernel's reading of a path: repeated separators count as one.
RECURSIVE Collapse(_)
Collapse(p) ==
    IF Len(p) < 2 THEN p
    ELSE IF p[1] = Sep /\ p[2] = Sep THEN Collapse(Tail(p))
    ELSE <<p[1]>> \o Collapse(Tail(p))

\* The entry a path names. A trailing separator names the directory itself,
\* and fails (ENOTDIR) on anything else.
Lookup(f, p) ==
    LET q == Collapse(p)
        bare == IF Len(q) > 1 /\ Last(q) = Sep THEN SubSeq(q, 1, Len(q) - 1) ELSE q
        e == IF bare \in DOMAIN f THEN f[bare] ELSE Absent
    IN  IF q # bare /\ e.kind # "dir" THEN Absent ELSE e

\* os.path.isfile
isfile(f, p) == Lookup(f, p).kind = "file"

\* os.path.join (posixpath) of two components
os_path_join(a, b) ==
    IF b # << >> /\ b[1] = Sep THEN b
    ELSE IF a = << >> \/ Last(a) = Sep THEN a \o b
    ELSE a \o <<Sep>> \o b

----------------------------------------------------------------------------
(* How a call ends: it returns a (path, content) pair, where the content may
   be None (some = FALSE), or it raises. *)

NoOutcome == [kind |-> "none", path |-> << >>, some |-> FALSE, content |-> << >>, err |-> ""]
Return(p, s, c) == [kind |-> "return", path |-> p, some |-> s, content |-> c, err |-> ""]
Raise(e) == [kind |-> "raise", path |-> << >>, some |-> FALSE, content |-> << >>, err |-> e]
\* try_path has reached open(full_path)
AtOpen(p) == [kind |-> "open", path |-> p, some |-> FALSE, content |-> << >>, err |-> ""]

InvalidFilename == "Got invalid filename (empty string)."
DirectoryImport == "Attempted to import a directory"
FileNotFound == "File not found"
JsonTypeError == "TypeError: not JSON serializable"
PermissionError == "PermissionError"
DecodeError == "UnicodeDecodeError"
IndexError == "IndexError"
EvaluationError == "RuntimeError"

----------------------------------------------------------------------------
(* json.dumps of the user data *)

Quote == "\""

serializable(d) == \A i \in 1..Len(d) : d[i][2][1] # "set"

json_value(v) == IF v[1] = "int" THEN <<v[2]>> ELSE <<Quote, v[2], Quote>>

RECURSIVE json_items(_)
json_items(d) ==
    IF d = << >> THEN << >>
    ELSE <<Quote, d[1][1], Quote, ":", " ">> \o json_value(d[1][2])
         \o (IF Len(d) > 1 THEN <<",", " ">> ELSE << >>)
         \o json_items(Tail(d))

json_text(d) == <<"{">> \o json_items(d) \o <<"}">>

----------------------------------------------------------------------------
(* JsonnetRenderer.try_path and JsonnetRenderer.import_callback *)

\* import_path == 'sceptre_user_data'
IsSentinelWrongName(import_path) == import_path = SENTINEL \o <<".", "j", "s", "o", "n">>
IsSentinel(import_path) == import_path = SENTINEL

\* return 'sceptre_user_data', json.dumps(sceptre_user_data)
sentinel_import(ud) ==
    IF serializable(ud) THEN Return(SENTINEL, TRUE, json_text(ud))
    ELSE Raise(JsonTypeError)

\* try_path's full_path, for a non-empty import_path
full_path_no_abs_branch(template_dir, import_path) ==
    IF template_dir = << >> \/ Last(template_dir) = Sep THEN template_dir \o import_path
    ELSE template_dir \o <<Sep>> \o import_path
full_path(template_dir, import_path) ==
    IF import_path[1] = Sep THEN import_path
    ELSE os_path_join(template_dir, import_path)

\* try_path up to open(): it raises, returns (full_path, None), or goes on to
\* open full_path.
TryPathPreNoEmptyCheck(f, template_dir, import_path) ==
    IF import_path = << >> THEN Raise(IndexError)
    ELSE LET full == full_path(template_dir, import_path)
         IN  IF Last(full) = Sep THEN Raise(DirectoryImport)
             ELSE IF ~isfile(f, full) THEN Return(full, FALSE, << >>)
             ELSE AtOpen(full)
TryPathPreExistenceFirst(f, template_dir, import_path) ==
    IF import_path = << >> THEN Raise(InvalidFilename)
    ELSE LET full == full_path(template_dir, import_path)
         IN  IF ~isfile(f, full) THEN Return(full, FALSE, << >>)
             ELSE IF Last(full) = Sep THEN Raise(DirectoryImport)
             ELSE AtOpen(full)
TryPathPreRaisesMissing(f, template_dir, import_path) ==
    IF import_path = << >> THEN Raise(InvalidFilename)
    ELSE LET full == full_path(template_dir, import_path)
         IN  IF Last(full) = Sep THEN Raise(DirectoryImport)
             ELSE IF ~isfile(f, full) THEN Raise(FileNotFound)
             ELSE AtOpen(full)
TryPathPre(f, template_dir, import_path) ==
    IF import_path = << >> THEN Raise(InvalidFilename)
    ELSE LET full == full_path(template_dir, import_path)
         IN  IF Last(full) = Sep THEN Raise(DirectoryImport)
             ELSE IF ~isfile(f, full) THEN Return(full, FALSE, << >>)
             ELSE AtOpen(full)

\* open(full_path): the file object, or the error of a file that cannot be opened
open_file(f, p) ==
    IF Lookup(f, p).mode = "noperm" THEN Raise(PermissionError) ELSE AtOpen(p)

\* open(full_path) opens for reading: the file is left as it is
open_truncating(f, p) == [f EXCEPT ![Collapse(p)] = File(<< >>)]
open_effect(f, p) == f

\* return full_path, f.read()
read_file(f, p) ==
    IF Lookup(f, p).mode = "undecodable" THEN Raise(DecodeError)
    ELSE Return(p, TRUE, Lookup(f, p).content)

\* leaving the with block closes the file, however the block ended
with_exit_leaking(open, p, r) == IF r.kind = "raise" THEN open ELSE open \ {p}
with_exit(open, p, r) == open \ {p}

\* if content: return full_path, content / raise RuntimeError('File not found')
import_callback_check_pass_through(tp) == tp
import_callback_check(tp) ==
    IF tp.some /\ tp.content # << >> THEN tp ELSE Raise(FileNotFound)

----------------------------------------------------------------------------
(* JsonnetRenderer.render and the evaluator it calls *)

Body == <<"{", "}">>

\* render returns what evaluate_file returned and lets its error through
render_swallowing(ev) == IF ev.kind = "raise" THEN Return(<< >>, TRUE, << >>) ELSE ev
render_result(ev) == ev

\* History: no resolution is remembered yet.
NoPin == [set |-> FALSE, dir |-> << >>, path |-> << >>, ud |-> << >>, outcome |-> NoOutcome]

Init ==
    /\ fs \in FsStates
    /\ pc = "idle"
    /\ templateDir = << >>
    /\ filename = << >>
    /\ userData = << >>
    /\ reqDir = << >>
    /\ reqPath = << >>
    /\ tpResult = NoOutcome
    /\ cbResult = NoOutcome
    /\ touched = {}
    /\ openFiles = {}
    /\ evalOutcome = NoOutcome
    /\ renderResult = NoOutcome
    /\ pinned = NoPin

\* render(template_dir, filename, sceptre_user_data) is called, for the first
\* time or after an earlier call ended, and calls _jsonnet.evaluate_file with
\* the callback bound to the user data.
Render(td, fn, ud) ==
    /\ pc \in {"idle", "done"}
    /\ pc' = "eval"
    /\ templateDir' = td
    /\ filename' = fn
    /\ userData' = ud
    /\ reqDir' = << >>
    /\ reqPath' = << >>
    /\ tpResult' = NoOutcome
    /\ cbResult' = NoOutcome
    /\ touched' = {}
    /\ evalOutcome' = NoOutcome
    /\ renderResult' = NoOutcome
    /\ UNCHANGED <<fs, openFiles, pinned>>

\* The evaluator meets an import and calls import_callback(dir, rel).
EvalImport(dir, rel) ==
    /\ pc = "eval"
    /\ pc' = "callback"
    /\ reqDir' = dir
    /\ reqPath' = rel
    /\ tpResult' = NoOutcome
    /\ cbResult' = NoOutcome
    /\ touched' = {}
    /\ UNCHANGED <<fs, templateDir, filename, userData, openFiles, evalOutcome,
                   renderResult, pinned>>

\* import_callback from its entry to its end, or to the open file of try_path.
ImportCallback ==
    /\ pc = "callback"
    /\ IF IsSentinel(reqPath)
       THEN /\ cbResult' = sentinel_import(userData)
            /\ pc' = "ret"
            /\ UNCHANGED <<fs, tpResult, touched, openFiles>>
       ELSE LET pre == TryPathPre(fs, reqDir, reqPath)
                opened == IF pre.kind = "open" THEN open_file(fs, pre.path) ELSE pre
            IN  /\ touched' = IF pre.kind = "raise" THEN {} ELSE {pre.path}
                /\ tpResult' = opened
                /\ IF opened.kind = "open"
                   THEN /\ openFiles' = openFiles \cup {opened.path}
                        /\ fs' = open_effect(fs, opened.path)
                        /\ pc' = "reading"
                        /\ UNCHANGED cbResult
                   ELSE /\ cbResult' = IF opened.kind = "raise" THEN opened
                                       ELSE import_callback_check(opened)
                        /\ pc' = "ret"
                        /\ UNCHANGED <<fs, openFiles>>
    /\ UNCHANGED <<templateDir, filename, userData, reqDir, reqPath, evalOutcome,
                   renderResult, pinned>>

\* try_path reads the open file and leaves the with block; import_callback
\* then tests the content.
ReadFile ==
    /\ pc = "reading"
    /\ LET r == read_file(fs, tpResult.path)
       IN  /\ tpResult' = r
           /\ openFiles' = with_exit(openFiles, tpResult.path, r)
           /\ cbResult' = IF r.kind = "raise" THEN r ELSE import_callback_check(r)
    /\ pc' = "ret"
    /\ UNCHANGED <<fs, templateDir, filename, userData, reqDir, reqPath, touched,
                   evalOutcome, renderResult, pinned>>

\* The evaluator gets the callback's result and the callback's frame is gone:
\* the evaluator goes on with the content, or ends the evaluation with an
\* error that carries the text of the error the callback raised.
EvalResume ==
    /\ pc = "ret"
    /\ IF cbResult.kind = "raise"
       THEN /\ evalOutcome' = Raise(cbResult.err)
            /\ pc' = "evaluated"
       ELSE /\ pc' = "eval"
            /\ UNCHANGED evalOutcome
    /\ reqDir' = << >>
    /\ reqPath' = << >>
    /\ tpResult' = NoOutcome
    /\ cbResult' = NoOutcome
    /\ touched' = {}
    /\ pinned' \in IF pinned.set THEN {pinned}
                   ELSE {pinned, [set |-> TRUE, dir |-> reqDir, path |-> reqPath,
                                  ud |-> userData, outcome |-> cbResult]}
    /\ UNCHANGED <<fs, templateDir, filename, userData, openFiles, renderResult>>

\* The evaluation ends with the rendered text.
EvalFinish ==
    /\ pc = "eval"
    /\ evalOutcome' = Return(os_path_join(templateDir, filename), TRUE, Body)
    /\ pc' = "evaluated"
    /\ UNCHANGED <<fs, templateDir, filename, userData, reqDir, reqPath, tpResult,
                   cbResult, touched, openFiles, renderResult, pinned>>

\* The evaluation fails on its own (a syntax or runtime error of the template).
EvalError ==
    /\ pc = "eval"
    /\ evalOutcome' = Raise(EvaluationError)
    /\ pc' = "evaluated"
    /\ UNCHANGED <<fs, templateDir, filename, userData, reqDir, reqPath, tpResult,
                   cbResult, touched, openFiles, renderResult, pinned>>

\* render ends: return body, or the evaluator's error propagates.
RenderReturn ==
    /\ pc = "evaluated"
    /\ renderResult' = render_result(evalOutcome)
    /\ pc' = "done"
    /\ UNCHANGED <<fs, templateDir, filename, userData, reqDir, reqPath, tpResult,
                   cbResult, touched, openFiles, evalOutcome, pinned>>

Next ==
    \/ \E td \in TemplateDirs, fn \in Filenames, ud \in UserDatas : Render(td, fn, ud)
    \/ \E dir \in BaseDirs, rel \in ImportPaths : EvalImport(dir, rel)
    \/ ImportCallback
    \/ ReadFile
    \/ EvalResume
    \/ EvalFinish
    \/ EvalError
    \/ RenderReturn

Spec == Init /\ [][Next]_vars

----------------------------------------------------------------------------
(* Properties *)

\* The running (or last) import request has run import_callback to its end.
CallbackEnded == cbResult.kind # "none"

\* try_path has ended in the running (or last) import request.
TryPathEnded == tpResult.kind \in {"return", "raise"}

\* The request goes to try_path with a non-empty path.
OrdinaryRequest == reqPath # << >> /\ reqPath # SENTINEL

\* The base directory joined with the requested path, written out.
Joined ==
    IF reqDir = << >> THEN reqPath
    ELSE IF Last(reqDir) = Sep THEN reqDir \o reqPath
    ELSE reqDir \o <<Sep>> \o reqPath

\* The resolved path of an ordinary request, written out.
Resolved == IF reqPath[1] = Sep THEN reqPath ELSE Joined

\* C1 as stated: an import of 'sceptre_user_data' returns ('sceptre_user_data',
\* JSON text of the user data) for every user-data mapping, raises nothing and
\* asks the filesystem nothing.
C1_AnyUserData ==
    (reqPath = SENTINEL /\ CallbackEnded) =>
        /\ cbResult = Return(SENTINEL, TRUE, json_text(userData))
        /\ touched = {} /\ tpResult = NoOutcome /\ openFiles = {}

\* C1 amended: an import of 'sceptre_user_data' never asks the filesystem
\* anything and never runs try_path; for a user-data mapping json.dumps can
\* serialize it returns ('sceptre_user_data', JSON text), "{}" for the empty
\* mapping; for a mapping holding a value json.dumps cannot serialize it ends
\* with json.dumps's TypeError.
C1_SerializableUserData ==
    (reqPath = SENTINEL /\ CallbackEnded) =>
        /\ touched = {} /\ tpResult = NoOutcome /\ openFiles = {}
        /\ IF \A i \in 1..Len(userData) : userData[i][2] \in {IntOne, StrX}
           THEN /\ cbResult.kind = "return"
                /\ cbResult.path = SENTINEL
                /\ cbResult.some
                /\ cbResult.content = json_text(userData)
                /\ (userData = << >> => cbResult.content = <<"{", "}">>)
                /\ (userData = << <<"a", StrX>>, <<"b", IntOne>> >> =>
                       cbResult.content =
                           <<"{", Quote, "a", Quote, ":", " ", Quote, "x", Quote, ",", " ",
                             Quote, "b", Quote, ":", " ", "1", "}">>)
           ELSE cbResult = Raise(JsonTypeError)

\* C1 witness: the sentinel is imported with the empty mapping while a real
\* file named sceptre_user_data exists in the base directory.
C1_Witness ==
    /\ reqPath = SENTINEL /\ reqDir = <<"d">> /\ pc = "ret"
    /\ fs[SentinelFile] = File(<<"x">>)
    /\ userData = << >>
    /\ cbResult = Return(SENTINEL, TRUE, <<"{", "}">>)

\* C2 as stated (for files that can be opened and decoded): an ordinary
\* request whose resolved path does not end with a separator and names an
\* existing regular file, of whatever content, returns (resolved path, file
\* content); 'File not found' is raised only when the resolved path is not an
\* existing regular file.
C2_ExistingFileReturned ==
    (OrdinaryRequest /\ CallbackEnded /\ Last(Resolved) # Sep) =>
        /\ (Lookup(fs, Resolved).kind = "file" /\ Lookup(fs, Resolved).mode = "ok" =>
               cbResult = Return(Resolved, TRUE, Lookup(fs, Resolved).content))
        /\ (cbResult = Raise(FileNotFound) => Lookup(fs, Resolved).kind # "file")

\* C3: an import request with the empty string ends with the 'invalid
\* filename' error, from try_path and from import_callback, with no path or
\* content returned and the filesystem not asked.
C3_EmptyPathInvalid ==
    (reqPath = << >> /\ CallbackEnded) =>
        /\ tpResult = Raise(InvalidFilename)
        /\ cbResult = Raise(InvalidFilename)
        /\ touched = {} /\ openFiles = {}

\* C3 witness: an empty import path has been resolved.
C3_Witness ==
    /\ reqPath = << >> /\ pc = "ret" /\ cbResult.err = InvalidFilename
    /\ reqDir = <<"d">> /\ userData # << >>

\* C4: an ordinary request whose resolved path ends with a separator ends
\* with the 'attempted to import a directory' error, whether or not the path
\* exists; never with 'file not found' or a no-content result.
C4_DirectoryImport ==
    (OrdinaryRequest /\ Last(Resolved) = Sep /\ (CallbackEnded \/ tpResult.kind # "none")) =>
        /\ tpResult = Raise(DirectoryImport)
        /\ cbResult = Raise(DirectoryImport)
        /\ openFiles = {}

\* C4 witness: a path ending with a separator that exists as a directory.
C4_Witness ==
    /\ OrdinaryRequest /\ Last(Resolved) = Sep /\ pc = "ret"
    /\ Lookup(fs, Resolved).kind = "dir"
    /\ cbResult.err = DirectoryImport

\* C5: a non-empty, non-sentinel relative path not ending with a separator
\* whose resolved path is not a regular file makes import_callback raise
\* 'file not found'; import_callback never returns a pair with missing content.
C5_MissingRelativeNotFound ==
    /\ (cbResult.kind = "return" => cbResult.some)
    /\ (OrdinaryRequest /\ reqPath[1] # Sep /\ Last(reqPath) # Sep
          /\ Lookup(fs, Joined).kind # "file" /\ CallbackEnded) =>
            cbResult = Raise(FileNotFound)

\* C5 witness: a relative path that does not exist has been resolved.
C5_Witness ==
    /\ OrdinaryRequest /\ reqPath[1] # Sep /\ Last(reqPath) # Sep /\ pc = "ret"
    /\ Lookup(fs, Joined).kind = "absent"
    /\ tpResult = Return(Joined, FALSE, << >>)
    /\ cbResult.err = FileNotFound

\* C6: the path try_path resolves is the requested path verbatim when it
\* begins with a separator, and the base directory joined with it otherwise.
C6_ResolvedPath ==
    (OrdinaryRequest /\ tpResult.kind \in {"return", "open"}) =>
        tpResult.path = IF reqPath[1] = Sep THEN reqPath ELSE Joined

\* C6 witness: an absolute path to a file outside the base directory resolves.
C6_Witness ==
    /\ reqDir = <<"d">> /\ reqPath = AbsFile
    /\ tpResult = Return(AbsFile, TRUE, <<"x">>)
    /\ cbResult = tpResult

\* C7 as stated: for a non-empty path whose resolved path does not end with a
\* separator try_path raises nothing: it returns (resolved, None) exactly when
\* the resolved path is not a regular file and (resolved, content) otherwise.
C7_TryPathNeverRaises ==
    (OrdinaryRequest /\ Last(Resolved) # Sep /\ TryPathEnded) =>
        tpResult = IF Lookup(fs, Resolved).kind # "file"
                   THEN Return(Resolved, FALSE, << >>)
                   ELSE Return(Resolved, TRUE, Lookup(fs, Resolved).content)

\* C7 amended: for a non-empty path whose resolved path does not end with a
\* separator try_path raises none of its own errors: it returns (resolved,
\* None) exactly when the resolved path is not a regular file, (resolved,
\* content) when the file is opened and read, an empty content included, and
\* otherwise ends with the error of open() or read().
C7_TryPathNoContentOrRead ==
    (OrdinaryRequest /\ Last(Resolved) # Sep /\ TryPathEnded) =>
        tpResult = IF Lookup(fs, Resolved).kind # "file"
                       THEN Return(Resolved, FALSE, << >>)
                   ELSE IF Lookup(fs, Resolved).mode = "noperm"
                       THEN Raise(PermissionError)
                   ELSE IF Lookup(fs, Resolved).mode = "undecodable"
                       THEN Raise(DecodeError)
                   ELSE Return(Resolved, TRUE, Lookup(fs, Resolved).content)

\* C7 witness: try_path has returned the empty content of a zero-length file,
\* which is not "no content".
C7_Witness ==
    /\ OrdinaryRequest /\ Last(Resolved) # Sep /\ pc = "ret"
    /\ Lookup(fs, Resolved) = File(<< >>)
    /\ tpResult = Return(Resolved, TRUE, << >>)

\* C8: every error is terminal for the render call: when import_callback
\* raised, the evaluation ends with an error and no further import is
\* resolved; when the evaluation ended with an error, render ends with that
\* error and returns no body.
C8_ErrorsTerminal ==
    [][ /\ (pc = "ret" /\ cbResult.kind = "raise" =>
               pc' = "evaluated" /\ evalOutcome' = Raise(cbResult.err))
        /\ (pc = "evaluated" /\ evalOutcome.kind = "raise" =>
               pc' = "done" /\ renderResult' = evalOutcome)
        /\ (pc' = "done" /\ renderResult'.kind = "return" =>
               pc = "evaluated" /\ evalOutcome.kind = "return")
      ]_vars

\* C8 witness: render has ended in failure after a 'file not found'.
C8_Witness ==
    /\ pc = "done" /\ renderResult = Raise(FileNotFound)

\* C9: import resolution is stateless: it leaves the filesystem, the user
\* data and its arguments as they are, and a resolution with the base
\* directory, path and user data of an earlier resolution (of this render call
\* or of an earlier one) ends as the earlier one did.
C9_Stateless ==
    [][ /\ (pc \in {"callback", "reading"} =>
               /\ fs' = fs /\ userData' = userData
               /\ reqDir' = reqDir /\ reqPath' = reqPath)
        /\ (pinned.set /\ pc # "ret" /\ pc' = "ret"
              /\ reqDir = pinned.dir /\ reqPath = pinned.path /\ userData = pinned.ud =>
               cbResult' = pinned.outcome)
      ]_vars

\* C9 witness: a file request resolved earlier has been resolved again, with
\* the same result.
C9_Witness ==
    /\ pinned.set /\ pc = "ret"
    /\ reqDir = pinned.dir /\ reqPath = pinned.path /\ userData = pinned.ud
    /\ tpResult.kind = "return" /\ tpResult.some
    /\ cbResult = pinned.outcome

\* C10: a file is open only while try_path reads it, after its path passed
\* the empty-path, directory and existence checks; at most one file is open at
\* any time, and none once try_path has ended, by a return or by an error.
C10_ScopedReads ==
    /\ Cardinality(openFiles) <= 1
    /\ (openFiles # {} =>
           /\ pc = "reading"
           /\ OrdinaryRequest
           /\ openFiles = {Resolved}
           /\ Last(Resolved) # Sep
           /\ Lookup(fs, Resolved).kind = "file")
    /\ (pc # "reading" => openFiles = {})

\* C10 witness: a read error has ended try_path and the file is released.
C10_Witness ==
    /\ pc = "ret" /\ tpResult = Raise(DecodeError)
    /\ touched = {Resolved}
    /\ openFiles = {}

====
